---- MODULE Spec2Model ----
(***************************************************************************)
(* Model of the enclave process control socket                             *)
(* (src/enclave_proc/socket.rs: EnclaveProcSock and its removal listener   *)
(* thread) and of the NE device driver wrappers                            *)
(* (tests/test_dev_driver.rs: NitroEnclavesDeviceDriver, NitroEnclave).    *)
(*                                                                         *)
(* Spec    : the control socket, its watcher threads, the filesystem with  *)
(*           its inotify queues, and an external actor on the paths.       *)
(* DevSpec : the device driver wrappers over an fd table.                  *)
(***************************************************************************)
EXTENDS Integers, Sequences, FiniteSets, TLC

\* ------------------------------------------------------------------ bounds
\* Number of calls the owning thread makes on the socket and its clones in
\* one run (start_monitoring, set_path, clone, close, close_mut, drop).
MaxCalls == 3
\* Number of actions of the external actor in one run.
MaxExt == 2

\* Number of NitroEnclave objects constructed in one run.
MaxEnclaves == 2
\* Number of add_mem_region() calls in one run.
MaxDevCalls == 3

\* Every call may spawn a watcher or make a clone; the listener's bind and
\* every external action may create an inode.
Watchers == 1..MaxCalls
CloneIds == 1..MaxCalls
Inodes   == 1..(MaxExt + 1)

\* "sock" is get_socket_path(enclave_id); "other" is a path given to set_path().
Paths       == {"sock", "other"}
DefaultPath == "sock"
\* The arguments given to set_path().
SetPathArgs == {"other"}
\* The paths the external actor touches.
ExtPaths    == {"sock"}

\* Option<JoinHandle<()>>::None ; a watcher id stands for Some(handle).
NoThread == 0
\* fs[p] = NoInode: nothing exists at path p.
NoInode == 0

\* close_mut() with the unlink ahead of the store to the flag.
CloseMutSteps_UnlinkFirst == <<"exists", "remove_file", "store", "join">>

\* The statements of close_mut() in program order: the store to
\* requested_remove, the exists() test, remove_file(), and the join.
CloseMutSteps == <<"store", "exists", "remove_file", "join">>

\* ---- NE device driver
Objs == 1..MaxEnclaves
\* Descriptor numbers the kernel hands out (lowest free first).
Fds  == 0..MaxEnclaves
\* What libc::ioctl and libc::close return on failure.
SysErr == -1

MiB == 1048576
\* The region size the device expects: the tests register 2 MiB regions.
ExpectedSize == 2 * MiB
\* userspace_addr of a hugetlbfs-backed region (MemoryRegion::mem_addr()).
RegionAddr == 16 * ExpectedSize
Slots == {0, 1}
Addrs == {RegionAddr, RegionAddr + 1, RegionAddr + ExpectedSize}
Sizes == {ExpectedSize \div 2, ExpectedSize, 2 * ExpectedSize}
\* kvm_userspace_memory_region (flags and guest_phys_addr are 0 throughout).
Regions == [slot : Slots, userspace_addr : Addrs, memory_size : Sizes]
NoRegion == [slot |-> 0, userspace_addr |-> 0, memory_size |-> 0]

NoSelf    == <<"none", 0>>
OwnerSelf == <<"owner", 0>>
CloneSelf(k) == <<"clone", k>>

VARIABLES
    \* ---- EnclaveProcSock (the owner object)
    owner,                  \* "none" | "live" | "dropped"
    socket_path,            \* self.socket_path
    remove_listener_thread, \* self.remove_listener_thread: NoThread or a watcher id
    requested_remove,       \* the shared Arc<AtomicBool>
    \* ---- clones of the owner
    clone_state,            \* [CloneIds -> "none" | "live" | "dropped"]
    clone_path,             \* [CloneIds -> path]
    \* ---- the close_mut() call in progress on the owning thread
    cm_self,                \* NoSelf | OwnerSelf | CloneSelf(k)
    cm_caller,              \* "none" | "close" | "close_mut" | "drop"
    cm_pc,                  \* index into CloseMutSteps; Len+1 = about to return
    cm_rerun,               \* this run on the owner directly follows a run on the owner
    \* ---- socket_removal_listener threads
    wpc,                    \* "unspawned" | "read" | "for" | "load" | "finished" | "exited"
    wpath,                  \* the thread's socket_path (path_clone)
    wino,                   \* inode its inotify watch is on (NoInode: no watch)
    wq,                     \* unread events queued in its inotify instance
    wbatch,                 \* events returned by read_events_blocking, not yet iterated
    wdone,                  \* the local `done`
    \* ---- filesystem
    fs,                     \* [Paths -> inode or NoInode]
    nextIno,                \* next inode number to allocate
    held,                   \* inodes kept alive by an open listener socket
    \* ---- process
    procExit,               \* "none" | "failfast" | "read_failed" | "unlink_failed"
    \* ---- history
    bound,                  \* the listener was bound on the endpoint
    extBudget,              \* external actions left
    calls,                  \* calls made by the owning thread
    lastRemover,            \* [Paths -> "none" | "close" | "external"]
    extRemovedActive,       \* the endpoint was removed externally under an active monitor,
                            \* the flag false and no close_mut in progress
    joined,                 \* watchers joined by close_mut
    stores,                 \* number of stores to requested_remove
    sm_result,              \* result of the last start_monitoring(): "none" | "ok" | "err"
    last_call,              \* the last call of the owning thread, with its input
    owner_close_started,    \* close(), close_mut() or Drop was entered on the owner
    ignored_present,        \* a watcher has handled an ATTRIB or DELETE_SELF event
                            \* with its path present
    fault,                  \* the system call that failed: "none" | "read" | "unlink" | "close"
    \* ---- NE device driver (DevSpec)
    enclaves,               \* [Objs -> NitroEnclave: st "none" | "live" | "dropped", enc_fd]
    open_fds,               \* enclave descriptors open in the process
    regions,                \* [Fds -> memory regions registered with that enclave]
    close_calls,            \* [Objs -> number of libc::close calls made for the object]
    stale_close,            \* libc::close was called on a descriptor that was not open
    dev_calls,              \* add_mem_region calls made
    dev_last,               \* the last call on the driver: op, obj, region, rc, result
    dev_panic               \* release() panicked

sockVars == <<owner, socket_path, remove_listener_thread, requested_remove,
              clone_state, clone_path, cm_self, cm_caller, cm_pc, cm_rerun>>
watchVars == <<wpc, wpath, wino, wq, wbatch, wdone>>
fsVars == <<fs, nextIno, held>>
callVars == <<calls, last_call>>
traceVars == <<bound, extBudget, callVars, lastRemover, extRemovedActive, joined, stores,
               sm_result, owner_close_started, ignored_present>>
histVars == <<traceVars, fault>>
\* Everything the owning thread's calls leave alone unless they say otherwise.
objVars == <<owner, socket_path, remove_listener_thread, requested_remove,
             clone_state, clone_path>>
cmVars == <<cm_self, cm_caller, cm_pc, cm_rerun>>
devVars == <<enclaves, open_fds, regions, close_calls, stale_close, dev_calls, dev_last,
             dev_panic>>
vars == <<sockVars, watchVars, fsVars, procExit, histVars, devVars>>

\* ------------------------------------------------------------ helpers

\* Path::exists()
Exists(p) == p \in Paths /\ fs[p] # NoInode

\* ExitGracefully::ok_or_exit: the value on Ok, process exit on Err.
ok_or_exit(ok, status) == IF ok THEN "none" ELSE status

Running == procExit = "none"

\* The thread is inside the listener (its Inotify instance is open).
Alive(w) == wpc[w] \in {"read", "for", "load"}

\* The ControlSocketMonitor state of watcher w.
WatcherState(w) ==
    IF wpc[w] = "unspawned" THEN "NotStarted"
    ELSE IF wpc[w] = "exited" THEN "Terminated"
    ELSE IF wdone[w] \/ wpc[w] = "finished" THEN "Done"
    ELSE "Watching"

\* inotify merges an event identical to the last unread one.
Coalesce(q, e) == IF Len(q) > 0 /\ q[Len(q)] = e THEN q ELSE Append(q, e)

RECURSIVE Enqueue(_, _)
Enqueue(q, evs) ==
    IF evs = <<>> THEN q ELSE Enqueue(Coalesce(q, Head(evs)), Tail(evs))

\* Queues after events evs on inode i: delivered to every open watch on i.
Notify(i, evs) ==
    [w \in Watchers |->
        IF Alive(w) /\ wino[w] = i /\ i # NoInode THEN Enqueue(wq[w], evs) ELSE wq[w]]

\* The watches after inode i is destroyed (the kernel removes them).
DropWatches(i) == [w \in Watchers |-> IF wino[w] = i THEN NoInode ELSE wino[w]]

\* unlink(p): the link count drops (IN_ATTRIB); an inode nobody holds open is
\* destroyed at once (IN_DELETE_SELF, then IN_IGNORED as the watch goes).
Unlink(p) ==
    LET i == fs[p] IN
    /\ fs' = [fs EXCEPT ![p] = NoInode]
    /\ IF i \in held
          THEN /\ wq' = Notify(i, <<"ATTRIB">>)
               /\ wino' = wino
          ELSE /\ wq' = Notify(i, <<"ATTRIB", "DELETE_SELF", "IGNORED">>)
               /\ wino' = DropWatches(i)

OwnerIdle == Running /\ owner = "live" /\ cm_self = NoSelf

SelfPath(s) == IF s[1] = "owner" THEN socket_path ELSE clone_path[s[2]]
SelfThread(s) == IF s[1] = "owner" THEN remove_listener_thread ELSE NoThread

Unspawned == {w \in Watchers : wpc[w] = "unspawned"}
NextWatcher == CHOOSE w \in Unspawned : \A v \in Unspawned : w <= v

\* ------------------------------------------------------------ Init

Init ==
    /\ owner = "none"
    /\ socket_path = DefaultPath
    /\ remove_listener_thread = NoThread
    /\ requested_remove = FALSE
    /\ clone_state = [k \in CloneIds |-> "none"]
    /\ clone_path = [k \in CloneIds |-> DefaultPath]
    /\ cm_self = NoSelf
    /\ cm_caller = "none"
    /\ cm_pc = 0
    /\ cm_rerun = FALSE
    /\ wpc = [w \in Watchers |-> "unspawned"]
    /\ wpath = [w \in Watchers |-> DefaultPath]
    /\ wino = [w \in Watchers |-> NoInode]
    /\ wq = [w \in Watchers |-> <<>>]
    /\ wbatch = [w \in Watchers |-> <<>>]
    /\ wdone = [w \in Watchers |-> FALSE]
    /\ fs = [p \in Paths |-> NoInode]
    /\ nextIno = 1
    /\ held = {}
    /\ procExit = "none"
    /\ bound = FALSE
    /\ extBudget = MaxExt
    /\ calls = 0
    /\ lastRemover = [p \in Paths |-> "none"]
    /\ extRemovedActive = FALSE
    /\ joined = {}
    /\ stores = 0
    /\ sm_result = "none"
    /\ last_call = <<"none", TRUE>>
    /\ owner_close_started = FALSE
    /\ ignored_present = FALSE
    /\ fault = "none"
    /\ enclaves = [o \in Objs |-> [st |-> "none", enc_fd |-> SysErr]]
    /\ open_fds = {}
    /\ regions = [fd \in Fds |-> {}]
    /\ close_calls = [o \in Objs |-> 0]
    /\ stale_close = FALSE
    /\ dev_calls = 0
    /\ dev_last = [op |-> "none", obj |-> 0, region |-> NoRegion, rc |-> 0, result |-> "none"]
    /\ dev_panic = FALSE

\* ------------------------------------------------------------ EnclaveProcSock

\* One more call by the owning thread.
Call(name, arg) ==
    /\ calls < MaxCalls
    /\ calls' = calls + 1
    /\ last_call' = <<name, arg>>

\* A new() that also binds the endpoint.
new_Binds ==
    /\ Running /\ owner = "none"
    /\ owner' = "live"
    /\ socket_path' = DefaultPath
    /\ remove_listener_thread' = NoThread
    /\ requested_remove' = FALSE
    /\ fs' = [fs EXCEPT ![DefaultPath] = nextIno]
    /\ nextIno' = nextIno + 1
    /\ UNCHANGED <<clone_state, clone_path, cmVars>>
    /\ UNCHANGED <<watchVars, held, procExit, histVars>>
    /\ UNCHANGED devVars

\* EnclaveProcSock::new
new ==
    /\ Running /\ owner = "none"
    /\ owner' = "live"
    /\ socket_path' = DefaultPath
    /\ remove_listener_thread' = NoThread
    /\ requested_remove' = FALSE
    /\ UNCHANGED <<clone_state, clone_path, cmVars>>
    /\ UNCHANGED <<watchVars, fsVars, procExit, histVars>>
    /\ UNCHANGED devVars

\* UnixListener::bind(socket.get_path()) by the collaborator that accepts
\* connections. A listener that is kept holds the socket inode open; the
\* tests drop it at once (`let _ = UnixListener::bind(..)`). Dropping it
\* while the file is still linked shows in nothing but the events of a later
\* unlink, so that drop is decided here.
Bind(keep) ==
    /\ OwnerIdle /\ ~bound
    /\ ~Exists(socket_path)
    /\ fs' = [fs EXCEPT ![socket_path] = nextIno]
    /\ held' = IF keep THEN held \cup {nextIno} ELSE held
    /\ nextIno' = nextIno + 1
    /\ bound' = TRUE
    /\ UNCHANGED <<sockVars, watchVars, procExit>>
    /\ UNCHANGED <<extBudget, callVars, lastRemover, extRemovedActive, joined, stores,
                   sm_result, owner_close_started, ignored_present, fault>>
    /\ UNCHANGED devVars

\* A kept listener is closed after its file was unlinked: the inode goes.
ListenerDrop(i) ==
    /\ Running /\ i \in held
    /\ \A p \in Paths : fs[p] # i
    /\ held' = held \ {i}
    /\ wq' = Notify(i, <<"DELETE_SELF", "IGNORED">>)
    /\ wino' = DropWatches(i)
    /\ UNCHANGED <<fs, nextIno, wpc, wpath, wbatch, wdone>>
    /\ UNCHANGED <<sockVars, procExit, histVars>>
    /\ UNCHANGED devVars

\* EnclaveProcSock::set_path
set_path(p) ==
    /\ OwnerIdle /\ Call("set_path", TRUE)
    /\ socket_path' = p
    /\ UNCHANGED <<owner, remove_listener_thread, requested_remove,
                   clone_state, clone_path, cmVars>>
    /\ UNCHANGED <<watchVars, fsVars, procExit>>
    /\ UNCHANGED <<bound, extBudget, lastRemover, extRemovedActive, joined, stores,
                   sm_result, owner_close_started, ignored_present, fault>>
    /\ UNCHANGED devVars

\* A start_monitoring() that spawns the listener before the watch is added.
start_monitoring_SpawnFirst(initOk) ==
    /\ OwnerIdle /\ Call("start_monitoring", initOk)
    /\ LET w == NextWatcher IN
       /\ wpc' = [wpc EXCEPT ![w] = "read"]
       /\ wpath' = [wpath EXCEPT ![w] = socket_path]
       /\ wino' = [wino EXCEPT ![w] = fs[socket_path]]
       /\ remove_listener_thread' = w
       /\ sm_result' = IF initOk /\ Exists(socket_path) THEN "ok" ELSE "err"
    /\ UNCHANGED <<owner, socket_path, requested_remove,
                   clone_state, clone_path, cmVars>>
    /\ UNCHANGED <<wq, wbatch, wdone, fsVars, procExit>>
    /\ UNCHANGED <<bound, extBudget, lastRemover, extRemovedActive, joined, stores,
                   owner_close_started, ignored_present, fault>>
    /\ UNCHANGED devVars

\* EnclaveProcSock::start_monitoring: Inotify::init()?, add_watch(..)?, then
\* thread::spawn of the listener with the path and flag clones.
start_monitoring(initOk) ==
    /\ OwnerIdle /\ Call("start_monitoring", initOk)
    /\ IF ~initOk \/ ~Exists(socket_path)
          THEN /\ sm_result' = "err"
               /\ UNCHANGED <<wpc, wpath, wino, remove_listener_thread>>
          ELSE LET w == NextWatcher IN
               /\ wpc' = [wpc EXCEPT ![w] = "read"]
               /\ wpath' = [wpath EXCEPT ![w] = socket_path]
               /\ wino' = [wino EXCEPT ![w] = fs[socket_path]]
               /\ remove_listener_thread' = w
               /\ sm_result' = "ok"
    /\ UNCHANGED <<owner, socket_path, requested_remove,
                   clone_state, clone_path, cmVars>>
    /\ UNCHANGED <<wq, wbatch, wdone, fsVars, procExit>>
    /\ UNCHANGED <<bound, extBudget, lastRemover, extRemovedActive, joined, stores,
                   owner_close_started, ignored_present, fault>>
    /\ UNCHANGED devVars

NoClone == {k \in CloneIds : clone_state[k] = "none"}
NextClone == CHOOSE k \in NoClone : \A j \in NoClone : k <= j

\* impl Clone for EnclaveProcSock: the path and the flag, no thread handle.
clone ==
    /\ OwnerIdle /\ Call("clone", TRUE)
    /\ clone_state' = [clone_state EXCEPT ![NextClone] = "live"]
    /\ clone_path' = [clone_path EXCEPT ![NextClone] = socket_path]
    /\ UNCHANGED <<owner, socket_path, remove_listener_thread, requested_remove, cmVars>>
    /\ UNCHANGED <<watchVars, fsVars, procExit>>
    /\ UNCHANGED <<bound, extBudget, lastRemover, extRemovedActive, joined, stores,
                   sm_result, owner_close_started, ignored_present, fault>>
    /\ UNCHANGED devVars

\* Entry into close_mut() on object s, called from `caller`.
EnterCloseMut(s, caller) ==
    /\ Call(caller, s = OwnerSelf)
    /\ cm_self' = s
    /\ cm_caller' = caller
    /\ cm_pc' = 1
    /\ cm_rerun' = (s = OwnerSelf /\ last_call = <<"close_mut", TRUE>>)
    /\ owner_close_started' = (owner_close_started \/ s = OwnerSelf)
    /\ UNCHANGED <<objVars, watchVars, fsVars, procExit>>
    /\ UNCHANGED <<bound, extBudget, lastRemover, extRemovedActive, joined, stores,
                   sm_result, ignored_present, fault>>
    /\ UNCHANGED devVars

\* EnclaveProcSock::close(mut self)
close == OwnerIdle /\ EnterCloseMut(OwnerSelf, "close")

\* A direct call of the private close_mut(), as in tests::test_close.
close_mut_direct == OwnerIdle /\ EnterCloseMut(OwnerSelf, "close_mut")

\* impl Drop for EnclaveProcSock, on the owner going out of scope.
drop_owner == OwnerIdle /\ EnterCloseMut(OwnerSelf, "drop")

\* impl Drop for EnclaveProcSock, on a clone going out of scope.
drop_clone(k) ==
    /\ Running /\ cm_self = NoSelf
    /\ clone_state[k] = "live"
    /\ EnterCloseMut(CloneSelf(k), "drop")

InCloseMut(step) ==
    /\ Running /\ cm_self # NoSelf
    /\ cm_pc \in 1..Len(CloseMutSteps)
    /\ CloseMutSteps[cm_pc] = step

\* close_mut: self.requested_remove.store(true, SeqCst)
CmStore ==
    /\ InCloseMut("store")
    /\ requested_remove' = TRUE
    /\ stores' = stores + 1
    /\ cm_pc' = cm_pc + 1
    /\ UNCHANGED <<owner, socket_path, remove_listener_thread,
                   clone_state, clone_path, cm_self, cm_caller, cm_rerun>>
    /\ UNCHANGED <<watchVars, fsVars, procExit>>
    /\ UNCHANGED <<bound, extBudget, callVars, lastRemover, extRemovedActive, joined,
                   sm_result, owner_close_started, ignored_present, fault>>
    /\ UNCHANGED devVars

\* close_mut: if self.socket_path.exists() { .. }
CmExists ==
    /\ InCloseMut("exists")
    /\ cm_pc' = IF Exists(SelfPath(cm_self)) THEN cm_pc + 1 ELSE cm_pc + 2
    /\ UNCHANGED <<objVars, cm_self, cm_caller, cm_rerun>>
    /\ UNCHANGED <<watchVars, fsVars, procExit, histVars>>
    /\ UNCHANGED devVars

\* A close_mut that ignores the result of remove_file (`let _ = ..`).
CmRemoveFile_Swallow(ok) ==
    /\ InCloseMut("remove_file")
    /\ LET p == SelfPath(cm_self)
           removed == ok /\ Exists(p) IN
       /\ fault' = IF removed THEN fault ELSE "unlink"
       /\ IF removed
             THEN /\ Unlink(p)
                  /\ lastRemover' = [lastRemover EXCEPT ![p] = "close"]
             ELSE UNCHANGED <<fs, wq, wino, lastRemover>>
       /\ cm_pc' = cm_pc + 1
    /\ UNCHANGED <<objVars, cm_self, cm_caller, cm_rerun, procExit>>
    /\ UNCHANGED <<wpc, wpath, wbatch, wdone, nextIno, held>>
    /\ UNCHANGED <<bound, extBudget, callVars, extRemovedActive, joined, stores, sm_result,
                   owner_close_started, ignored_present>>
    /\ UNCHANGED devVars

\* close_mut: std::fs::remove_file(&self.socket_path).ok_or_exit(..)
CmRemoveFile(ok) ==
    /\ InCloseMut("remove_file")
    /\ LET p == SelfPath(cm_self)
           removed == ok /\ Exists(p) IN
       /\ procExit' = ok_or_exit(removed, "unlink_failed")
       /\ fault' = IF removed THEN fault ELSE "unlink"
       /\ IF removed
             THEN /\ Unlink(p)
                  /\ lastRemover' = [lastRemover EXCEPT ![p] = "close"]
                  /\ cm_pc' = cm_pc + 1
             ELSE UNCHANGED <<fs, wq, wino, lastRemover, cm_pc>>
    /\ UNCHANGED <<objVars, cm_self, cm_caller, cm_rerun>>
    /\ UNCHANGED <<wpc, wpath, wbatch, wdone, nextIno, held>>
    /\ UNCHANGED <<bound, extBudget, callVars, extRemovedActive, joined, stores, sm_result,
                   owner_close_started, ignored_present>>
    /\ UNCHANGED devVars

\* A close_mut that takes the handle and goes on without waiting for the join.
CmJoin_NoWait ==
    /\ InCloseMut("join")
    /\ LET t == SelfThread(cm_self) IN
       /\ joined' = IF t = NoThread THEN joined ELSE joined \cup {t}
       /\ remove_listener_thread' =
             IF cm_self = OwnerSelf THEN NoThread ELSE remove_listener_thread
    /\ cm_pc' = cm_pc + 1
    /\ UNCHANGED <<owner, socket_path, requested_remove,
                   clone_state, clone_path, cm_self, cm_caller, cm_rerun>>
    /\ UNCHANGED <<watchVars, fsVars, procExit>>
    /\ UNCHANGED <<bound, extBudget, callVars, lastRemover, extRemovedActive, stores,
                   sm_result, owner_close_started, ignored_present, fault>>
    /\ UNCHANGED devVars

\* A close_mut that joins through the handle and leaves it in place.
CmJoin_NoTake ==
    /\ InCloseMut("join")
    /\ LET t == SelfThread(cm_self) IN
       /\ t # NoThread => wpc[t] = "finished"
       /\ joined' = IF t = NoThread THEN joined ELSE joined \cup {t}
    /\ cm_pc' = cm_pc + 1
    /\ UNCHANGED <<owner, socket_path, remove_listener_thread, requested_remove,
                   clone_state, clone_path, cm_self, cm_caller, cm_rerun>>
    /\ UNCHANGED <<watchVars, fsVars, procExit>>
    /\ UNCHANGED <<bound, extBudget, callVars, lastRemover, extRemovedActive, stores,
                   sm_result, owner_close_started, ignored_present, fault>>
    /\ UNCHANGED devVars

\* close_mut: if self.remove_listener_thread.is_some() { take().unwrap().join() }
\* The join returns once the listener thread has finished.
CmJoin ==
    /\ InCloseMut("join")
    /\ LET t == SelfThread(cm_self) IN
       /\ t # NoThread => wpc[t] = "finished"
       /\ joined' = IF t = NoThread THEN joined ELSE joined \cup {t}
       /\ remove_listener_thread' =
             IF cm_self = OwnerSelf THEN NoThread ELSE remove_listener_thread
    /\ cm_pc' = cm_pc + 1
    /\ UNCHANGED <<owner, socket_path, requested_remove,
                   clone_state, clone_path, cm_self, cm_caller, cm_rerun>>
    /\ UNCHANGED <<watchVars, fsVars, procExit>>
    /\ UNCHANGED <<bound, extBudget, callVars, lastRemover, extRemovedActive, stores,
                   sm_result, owner_close_started, ignored_present, fault>>
    /\ UNCHANGED devVars

\* Return from close_mut(): close(self) then drops self (Drop runs close_mut
\* again); a Drop ends the object; a direct call returns to the caller.
CmReturn ==
    /\ Running /\ cm_self # NoSelf
    /\ cm_pc = Len(CloseMutSteps) + 1
    /\ IF cm_caller = "close"
          THEN /\ cm_caller' = "drop"
               /\ cm_pc' = 1
               /\ cm_rerun' = TRUE
               /\ UNCHANGED <<cm_self, owner, clone_state>>
          ELSE /\ cm_caller' = "none"
               /\ cm_pc' = 0
               /\ cm_rerun' = FALSE
               /\ cm_self' = NoSelf
               /\ owner' = IF cm_caller = "drop" /\ cm_self = OwnerSelf
                              THEN "dropped" ELSE owner
               /\ clone_state' = IF cm_caller = "drop" /\ cm_self[1] = "clone"
                                    THEN [clone_state EXCEPT ![cm_self[2]] = "dropped"]
                                    ELSE clone_state
    /\ UNCHANGED <<socket_path, remove_listener_thread, requested_remove, clone_path>>
    /\ UNCHANGED <<watchVars, fsVars, procExit, histVars>>
    /\ UNCHANGED devVars

\* ------------------------------------------------------------ the listener

\* After an event of the batch has been handled: the next event, or the
\* `while !done` test once the batch is exhausted.
Advance(w, rest, d) ==
    /\ wbatch' = [wbatch EXCEPT ![w] = rest]
    /\ wdone' = [wdone EXCEPT ![w] = d]
    /\ IF rest # <<>>
          THEN /\ wpc' = [wpc EXCEPT ![w] = "for"]
               /\ UNCHANGED <<wq, wino>>
          ELSE IF d
          THEN /\ wpc' = [wpc EXCEPT ![w] = "finished"]
               /\ wq' = [wq EXCEPT ![w] = <<>>]
               /\ wino' = [wino EXCEPT ![w] = NoInode]
          ELSE /\ wpc' = [wpc EXCEPT ![w] = "read"]
               /\ UNCHANGED <<wq, wino>>

\* socket_inotify.read_events_blocking(&mut buffer).ok_or_exit(..)
WRead(w, ok) ==
    /\ Running /\ wpc[w] = "read"
    /\ ok => wq[w] # <<>>
    /\ procExit' = ok_or_exit(ok, "read_failed")
    /\ fault' = IF ok THEN fault ELSE "read"
    /\ IF ok
          THEN /\ wbatch' = [wbatch EXCEPT ![w] = wq[w]]
               /\ wq' = [wq EXCEPT ![w] = <<>>]
               /\ wpc' = [wpc EXCEPT ![w] = "for"]
          ELSE /\ wpc' = [wpc EXCEPT ![w] = "exited"]
               /\ UNCHANGED <<wbatch, wq>>
    /\ UNCHANGED <<wpath, wino, wdone>>
    /\ UNCHANGED <<sockVars, fsVars, traceVars>>
    /\ UNCHANGED devVars

\* A listener that trusts the event mask and does not test the path.
WFor_NoExistsCheck(w) ==
    /\ Running /\ wpc[w] = "for"
    /\ LET e == Head(wbatch[w])
           rest == Tail(wbatch[w]) IN
       /\ IF e \in {"ATTRIB", "DELETE_SELF"}
             THEN /\ wpc' = [wpc EXCEPT ![w] = "load"]
                  /\ wbatch' = [wbatch EXCEPT ![w] = rest]
                  /\ UNCHANGED <<wq, wino, wdone>>
             ELSE Advance(w, rest, wdone[w])
       /\ ignored_present' =
             (ignored_present \/ (e \in {"ATTRIB", "DELETE_SELF"} /\ Exists(wpath[w])))
    /\ UNCHANGED wpath
    /\ UNCHANGED <<sockVars, fsVars, procExit>>
    /\ UNCHANGED <<bound, extBudget, callVars, lastRemover, extRemovedActive, joined, stores,
                   sm_result, owner_close_started, fault>>
    /\ UNCHANGED devVars

\* for event in events: the mask test and !socket_path.exists()
WFor(w) ==
    /\ Running /\ wpc[w] = "for"
    /\ LET e == Head(wbatch[w])
           rest == Tail(wbatch[w]) IN
       /\ IF e \in {"ATTRIB", "DELETE_SELF"} /\ ~Exists(wpath[w])
             THEN /\ wpc' = [wpc EXCEPT ![w] = "load"]
                  /\ wbatch' = [wbatch EXCEPT ![w] = rest]
                  /\ UNCHANGED <<wq, wino, wdone>>
             ELSE Advance(w, rest, wdone[w])
       /\ ignored_present' =
             (ignored_present \/ (e \in {"ATTRIB", "DELETE_SELF"} /\ Exists(wpath[w])))
    /\ UNCHANGED wpath
    /\ UNCHANGED <<sockVars, fsVars, procExit>>
    /\ UNCHANGED <<bound, extBudget, callVars, lastRemover, extRemovedActive, joined, stores,
                   sm_result, owner_close_started, fault>>
    /\ UNCHANGED devVars

\* A listener that takes every removal for the owner's, without the flag.
WLoad_AlwaysDone(w) ==
    /\ Running /\ wpc[w] = "load"
    /\ Advance(w, wbatch[w], TRUE)
    /\ UNCHANGED procExit
    /\ UNCHANGED wpath
    /\ UNCHANGED <<sockVars, fsVars, histVars>>
    /\ UNCHANGED devVars

\* if requested_remove.load(SeqCst) { done = true } else { std::process::exit(1) }
WLoad(w) ==
    /\ Running /\ wpc[w] = "load"
    /\ IF requested_remove
          THEN /\ Advance(w, wbatch[w], TRUE)
               /\ UNCHANGED procExit
          ELSE /\ procExit' = "failfast"
               /\ wpc' = [wpc EXCEPT ![w] = "exited"]
               /\ UNCHANGED <<wq, wino, wbatch, wdone>>
    /\ UNCHANGED wpath
    /\ UNCHANGED <<sockVars, fsVars, histVars>>
    /\ UNCHANGED devVars

\* ------------------------------------------------------------ external actor

\* A watcher is monitoring the object at p and has not been told of a removal.
MonitorActive(p) ==
    \E w \in Watchers :
        /\ WatcherState(w) = "Watching"
        /\ wpath[w] = p
        /\ wino[w] = fs[p]

ExtStep ==
    /\ Running /\ owner # "none"
    /\ extBudget > 0
    /\ extBudget' = extBudget - 1

\* Something other than close() unlinks the endpoint.
ExtRemove(p) ==
    /\ ExtStep
    /\ Exists(p)
    /\ Unlink(p)
    /\ lastRemover' = [lastRemover EXCEPT ![p] = "external"]
    /\ extRemovedActive' =
          (extRemovedActive \/ (MonitorActive(p) /\ ~requested_remove /\ cm_self = NoSelf))
    /\ UNCHANGED <<wpc, wpath, wbatch, wdone, nextIno, held>>
    /\ UNCHANGED <<sockVars, procExit>>
    /\ UNCHANGED <<bound, callVars, joined, stores, sm_result, owner_close_started, ignored_present, fault>>
    /\ UNCHANGED devVars

\* Something creates a file at a free path.
ExtCreate(p) ==
    /\ ExtStep
    /\ ~Exists(p)
    /\ fs' = [fs EXCEPT ![p] = nextIno]
    /\ nextIno' = nextIno + 1
    /\ UNCHANGED <<held, watchVars, sockVars, procExit>>
    /\ UNCHANGED <<bound, callVars, lastRemover, extRemovedActive, joined, stores, sm_result,
                   owner_close_started, ignored_present, fault>>
    /\ UNCHANGED devVars

\* An attribute-only change (chmod, chown) of the file at p.
ExtAttrib(p) ==
    /\ ExtStep
    /\ Exists(p)
    /\ wq' = Notify(fs[p], <<"ATTRIB">>)
    /\ UNCHANGED <<wpc, wpath, wino, wbatch, wdone, fsVars, sockVars, procExit>>
    /\ UNCHANGED <<bound, callVars, lastRemover, extRemovedActive, joined, stores, sm_result,
                   owner_close_started, ignored_present, fault>>
    /\ UNCHANGED devVars

\* ------------------------------------------------------------ specification

Next ==
    \/ new
    \/ \E keep \in BOOLEAN : Bind(keep)
    \/ \E i \in Inodes : ListenerDrop(i)
    \/ \E p \in SetPathArgs : set_path(p)
    \/ \E initOk \in BOOLEAN : start_monitoring(initOk)
    \/ clone
    \/ close
    \/ close_mut_direct
    \/ drop_owner
    \/ \E k \in CloneIds : drop_clone(k)
    \/ CmStore
    \/ CmExists
    \/ \E ok \in BOOLEAN : CmRemoveFile(ok)
    \/ CmJoin
    \/ CmReturn
    \/ \E w \in Watchers, ok \in BOOLEAN : WRead(w, ok)
    \/ \E w \in Watchers : WFor(w)
    \/ \E w \in Watchers : WLoad(w)
    \/ \E p \in ExtPaths : ExtRemove(p)
    \/ \E p \in ExtPaths : ExtCreate(p)
    \/ \E p \in ExtPaths : ExtAttrib(p)

Spec == Init /\ [][Next]_vars

\* ------------------------------------------------------------ NE device driver

DevRunning == ~dev_panic

NoObj == {o \in Objs : enclaves[o].st = "none"}
NextObj == CHOOSE o \in NoObj : \A j \in NoObj : o <= j
FreeFds == Fds \ open_fds
LowestFree == CHOOSE fd \in FreeFds : \A g \in FreeFds : fd <= g

\* userspace_addr lies on a boundary of the pages that back a region.
Aligned(a) == a % ExpectedSize = 0

\* The device's answer to KVM_SET_USER_MEMORY_REGION on descriptor fd: the
\* request is rejected when the size is not the expected one, when the
\* address is not aligned, or when the slot or the region is already
\* registered with the enclave.
ne_set_user_memory_region(fd, r) ==
    IF fd \notin open_fds THEN SysErr
    ELSE IF r.memory_size # ExpectedSize THEN SysErr
    ELSE IF ~Aligned(r.userspace_addr) THEN SysErr
    ELSE IF \E q \in regions[fd] :
                q.slot = r.slot \/ q.userspace_addr = r.userspace_addr THEN SysErr
    ELSE 0

\* NitroEnclave::new
NitroEnclave_new(o, fd) == [enclaves EXCEPT ![o] = [st |-> "live", enc_fd |-> fd]]

\* A create_enclave() that wraps whatever the ioctl returned.
create_enclave_NoCheck(ok) ==
    /\ DevRunning /\ NoObj # {}
    /\ LET enc_fd == IF ok THEN LowestFree ELSE SysErr IN
       /\ open_fds' = IF enc_fd < 0 THEN open_fds ELSE open_fds \cup {enc_fd}
       /\ enclaves' = NitroEnclave_new(NextObj, enc_fd)
       /\ dev_last' = [op |-> "create_enclave", obj |-> NextObj, region |-> NoRegion,
                       rc |-> enc_fd, result |-> "Ok"]
    /\ UNCHANGED <<regions, close_calls, stale_close, dev_calls, dev_panic>>
    /\ UNCHANGED <<sockVars, watchVars, fsVars, procExit, histVars>>

\* NitroEnclavesDeviceDriver::create_enclave: ioctl(KVM_CREATE_VM), Err on a
\* negative result, else NitroEnclave::new(enc_fd).
create_enclave(ok) ==
    /\ DevRunning /\ NoObj # {}
    /\ LET enc_fd == IF ok THEN LowestFree ELSE SysErr IN
       IF enc_fd < 0
          THEN /\ dev_last' = [op |-> "create_enclave", obj |-> 0, region |-> NoRegion,
                               rc |-> enc_fd, result |-> "Err"]
               /\ UNCHANGED <<enclaves, open_fds>>
          ELSE /\ open_fds' = open_fds \cup {enc_fd}
               /\ enclaves' = NitroEnclave_new(NextObj, enc_fd)
               /\ dev_last' = [op |-> "create_enclave", obj |-> NextObj, region |-> NoRegion,
                               rc |-> enc_fd, result |-> "Ok"]
    /\ UNCHANGED <<regions, close_calls, stale_close, dev_calls, dev_panic>>
    /\ UNCHANGED <<sockVars, watchVars, fsVars, procExit, histVars>>

\* A NitroEnclave built directly on a descriptor that is not valid.
new_invalid ==
    /\ DevRunning /\ NoObj # {}
    /\ enclaves' = NitroEnclave_new(NextObj, SysErr)
    /\ dev_last' = [op |-> "new", obj |-> NextObj, region |-> NoRegion,
                    rc |-> 0, result |-> "Ok"]
    /\ UNCHANGED <<open_fds, regions, close_calls, stale_close, dev_calls, dev_panic>>
    /\ UNCHANGED <<sockVars, watchVars, fsVars, procExit, histVars>>

\* An add_mem_region() that drops the ioctl's result and returns Ok(()).
add_mem_region_MasksErr(o, r) ==
    /\ DevRunning /\ enclaves[o].st = "live"
    /\ dev_calls < MaxDevCalls
    /\ dev_calls' = dev_calls + 1
    /\ LET fd == enclaves[o].enc_fd
           rc == ne_set_user_memory_region(fd, r) IN
       /\ regions' = IF rc < 0 THEN regions
                     ELSE [regions EXCEPT ![fd] = regions[fd] \cup {r}]
       /\ dev_last' = [op |-> "add_mem_region", obj |-> o, region |-> r, rc |-> rc,
                       result |-> "Ok"]
    /\ UNCHANGED <<enclaves, open_fds, close_calls, stale_close, dev_panic>>
    /\ UNCHANGED <<sockVars, watchVars, fsVars, procExit, histVars>>

\* An add_mem_region() that takes a zero result for a failure too.
add_mem_region_ZeroIsErr(o, r) ==
    /\ DevRunning /\ enclaves[o].st = "live"
    /\ dev_calls < MaxDevCalls
    /\ dev_calls' = dev_calls + 1
    /\ LET fd == enclaves[o].enc_fd
           rc == ne_set_user_memory_region(fd, r) IN
       /\ regions' = IF rc < 0 THEN regions
                     ELSE [regions EXCEPT ![fd] = regions[fd] \cup {r}]
       /\ dev_last' = [op |-> "add_mem_region", obj |-> o, region |-> r, rc |-> rc,
                       result |-> IF rc <= 0 THEN "Err" ELSE "Ok"]
    /\ UNCHANGED <<enclaves, open_fds, close_calls, stale_close, dev_panic>>
    /\ UNCHANGED <<sockVars, watchVars, fsVars, procExit, histVars>>

\* NitroEnclave::add_mem_region: ioctl(KVM_SET_USER_MEMORY_REGION), Err on a
\* negative result, else Ok(()).
add_mem_region(o, r) ==
    /\ DevRunning /\ enclaves[o].st = "live"
    /\ dev_calls < MaxDevCalls
    /\ dev_calls' = dev_calls + 1
    /\ LET fd == enclaves[o].enc_fd
           rc == ne_set_user_memory_region(fd, r) IN
       /\ regions' = IF rc < 0 THEN regions
                     ELSE [regions EXCEPT ![fd] = regions[fd] \cup {r}]
       /\ dev_last' = [op |-> "add_mem_region", obj |-> o, region |-> r, rc |-> rc,
                       result |-> IF rc < 0 THEN "Err" ELSE "Ok"]
    /\ UNCHANGED <<enclaves, open_fds, close_calls, stale_close, dev_panic>>
    /\ UNCHANGED <<sockVars, watchVars, fsVars, procExit, histVars>>

\* NitroEnclave::release: libc::close(self.enc_fd), panic on a negative
\* result. The kernel frees an open descriptor whatever close() returns.
release(o, closeOk) ==
    LET fd == enclaves[o].enc_fd
        rc == IF fd \in open_fds /\ closeOk THEN 0 ELSE SysErr IN
    /\ close_calls' = [close_calls EXCEPT ![o] = close_calls[o] + 1]
    /\ stale_close' = (stale_close \/ fd \notin open_fds)
    /\ open_fds' = open_fds \ {fd}
    /\ regions' = IF fd \in Fds THEN [regions EXCEPT ![fd] = {}] ELSE regions
    /\ fault' = IF rc < 0 THEN "close" ELSE fault
    /\ dev_panic' = (rc < 0)

\* A Drop that releases whatever the descriptor is.
drop_NoGuard(o, closeOk) ==
    /\ DevRunning /\ enclaves[o].st = "live"
    /\ enclaves' = [enclaves EXCEPT ![o].st = "dropped"]
    /\ release(o, closeOk)
    /\ UNCHANGED <<dev_calls, dev_last>>
    /\ UNCHANGED <<sockVars, watchVars, fsVars, procExit, traceVars>>

\* impl Drop for NitroEnclave: nothing for a negative enc_fd, else release().
drop(o, closeOk) ==
    /\ DevRunning /\ enclaves[o].st = "live"
    /\ enclaves' = [enclaves EXCEPT ![o].st = "dropped"]
    /\ IF enclaves[o].enc_fd < 0
          THEN UNCHANGED <<open_fds, regions, close_calls, stale_close, dev_panic, fault>>
          ELSE release(o, closeOk)
    /\ UNCHANGED <<dev_calls, dev_last>>
    /\ UNCHANGED <<sockVars, watchVars, fsVars, procExit, traceVars>>

DevNext ==
    \/ \E ok \in BOOLEAN : create_enclave(ok)
    \/ new_invalid
    \/ \E o \in Objs, r \in Regions : add_mem_region(o, r)
    \/ \E o \in Objs, closeOk \in BOOLEAN : drop(o, closeOk)

DevSpec == Init /\ [][DevNext]_vars

\* ------------------------------------------------------------ claims

\* ------------------------------------------------------------ one process
\* The enclave process (the control socket) and the device driver test are
\* separate programs: a process runs the one or the other.

SockIdle == owner = "none"
DevIdle == dev_last.op = "none" /\ \A o \in Objs : enclaves[o].st = "none"

ProcNext ==
    \/ DevIdle /\ Next
    \/ SockIdle /\ DevNext

ProcSpec == Init /\ [][ProcNext]_vars

\* ------------------------------------------------------------ claims

Spawned == {w \in Watchers : wpc[w] # "unspawned"}
CloseMutDone == cm_pc = Len(CloseMutSteps) + 1

\* The run was new(), a bind, one successful start_monitoring() and then
\* close()/close_mut() on the owner, with a close_mut of the owner (the
\* one close() calls, or the one Drop runs after it) about to return; no
\* set_path(), no clone, and no external actor touched the path.
C1_Sequence ==
    /\ Cardinality(Spawned) = 1
    /\ extBudget = MaxExt
    /\ socket_path = DefaultPath
    /\ \A k \in CloneIds : clone_state[k] = "none"
    /\ stores >= 1
    /\ cm_self = OwnerSelf /\ CloseMutDone

C2_ExternalDeletionFailFast ==
    extRemovedActive =>
        \/ procExit # "none"
        \/ \E w \in Watchers : WatcherState(w) = "Watching"

\* C3: flag before unlink. Whenever the last removal of a path was done by
\* close_mut the flag is already true, so a watcher that found the path
\* absent for that reason loads true; and a watcher that took the
\* process::exit(1) branch found absent a path last removed externally.
C3_FlagBeforeUnlink ==
    /\ \A p \in Paths : lastRemover[p] = "close" => requested_remove
    /\ \A w \in Watchers :
          (wpc[w] = "load" /\ lastRemover[wpath[w]] = "close") => requested_remove
    /\ \A w \in Watchers :
          (procExit = "failfast" /\ wpc[w] = "exited") => lastRemover[wpath[w]] = "external"

C3_Witness ==
    \E w \in Watchers :
        /\ wpc[w] = "load"
        /\ lastRemover[wpath[w]] = "close"
        /\ extBudget = MaxExt

\* C4: no false positives. A watcher that handles an event while its path
\* exists makes no transition: its monitor state and `done` are unchanged,
\* it does not go on to read the flag, and the process does not exit,
\* whatever the flag holds.
C4_NoFalsePositive ==
    [][\A w \in Watchers :
          (wpc[w] = "for" /\ wbatch'[w] # wbatch[w] /\ Exists(wpath[w])) =>
              /\ WatcherState(w)' = WatcherState(w)
              /\ wdone'[w] = wdone[w]
              /\ wpc'[w] # "load"
              /\ procExit' = procExit]_vars

C4_Witness ==
    /\ ignored_present
    /\ procExit = "none"
    /\ \E w \in Watchers :
          /\ Spawned = {w}
          /\ wpc[w] = "read" /\ WatcherState(w) = "Watching"
          /\ Exists(wpath[w])

\* C5: at most one active monitor per socket. At most one watcher is in
\* Watching, and every watcher spawned is the one held in
\* remove_listener_thread or has been joined by close_mut.
C5_AtMostOneMonitor ==
    /\ Cardinality({w \in Watchers : WatcherState(w) = "Watching"}) <= 1
    /\ \A w \in Spawned : remove_listener_thread = w \/ w \in joined

\* C6: dropping a clone has no side effects. No step of a clone's Drop
\* changes the shared flag, the filesystem or any watcher's event queue.
C6_CloneDropNoSideEffects ==
    [][(cm_self[1] = "clone" /\ cm_pc' # cm_pc) =>
          /\ requested_remove' = requested_remove
          /\ fs' = fs
          /\ wq' = wq]_vars

\* C7: the flag is changed only by the owner's close. While no close(),
\* close_mut() or Drop has been entered on the owner, the flag is false.
C7_FlagOnlyByOwnerClose == ~owner_close_started => ~requested_remove

\* A step of start_monitoring().
SmStep == calls' = calls + 1 /\ last_call'[1] = "start_monitoring"

\* C8: start_monitoring() fails cleanly. When Inotify::init() fails or the
\* path does not exist it returns an error and leaves the threads, the
\* handle and the flag as they were; a watcher is spawned only by a
\* start_monitoring() that returns Ok, with its watch on the object at the
\* path.
C8_StartMonitoringFailsCleanly ==
    [][/\ (SmStep /\ (~last_call'[2] \/ ~Exists(socket_path))) =>
              /\ sm_result' = "err"
              /\ UNCHANGED <<wpc, wino, remove_listener_thread, requested_remove>>
       /\ \A w \in Watchers :
              (wpc[w] = "unspawned" /\ wpc'[w] # "unspawned") =>
                  /\ SmStep /\ last_call'[2]
                  /\ sm_result' = "ok"
                  /\ Exists(socket_path)
                  /\ wino'[w] = fs[socket_path]
                  /\ remove_listener_thread' = w]_vars

C8_Witness ==
    /\ last_call = <<"start_monitoring", TRUE>>
    /\ sm_result = "err"
    /\ ~bound /\ extBudget = MaxExt
    /\ Spawned = {}
    /\ remove_listener_thread = NoThread /\ ~requested_remove

C10_ReleaseDiscipline ==
    /\ \A o \in Objs :
          /\ enclaves[o].st = "live" => close_calls[o] = 0
          /\ enclaves[o].st = "dropped" =>
                close_calls[o] = (IF enclaves[o].enc_fd < 0 THEN 0 ELSE 1)
    /\ ~stale_close
    /\ open_fds = {enclaves[o].enc_fd : o \in {x \in Objs : enclaves[x].st = "live"}}
                     \ {SysErr}

C10_Witness ==
    /\ \E o \in Objs : enclaves[o].st = "dropped" /\ enclaves[o].enc_fd < 0
    /\ \E o \in Objs : enclaves[o].st = "dropped" /\ enclaves[o].enc_fd >= 0
    /\ open_fds = {}
    /\ ~dev_panic

\* A step of create_enclave() (one that fails right after another that
\* failed changes nothing at all).
CreateStep == dev_last' # dev_last /\ dev_last'.op = "create_enclave"

\* C11: create_enclave() surfaces allocation failure as an error value. On
\* a negative ioctl result it returns Err, does not panic, constructs no
\* NitroEnclave and opens or closes no descriptor; on a non-negative result
\* it returns Ok with a new NitroEnclave whose enc_fd is that descriptor,
\* now open, and touches no other object.
C11_CreateEnclaveSurfacesFailure ==
    [][CreateStep =>
          LET rc == dev_last'.rc
              o == dev_last'.obj IN
          /\ ~dev_panic'
          /\ close_calls' = close_calls
          /\ rc < 0 =>
                /\ dev_last'.result = "Err"
                /\ enclaves' = enclaves
                /\ open_fds' = open_fds
          /\ rc >= 0 =>
                /\ dev_last'.result = "Ok"
                /\ o \in Objs /\ enclaves[o].st = "none"
                /\ enclaves' = [enclaves EXCEPT ![o] = [st |-> "live", enc_fd |-> rc]]
                /\ rc \notin open_fds
                /\ open_fds' = open_fds \cup {rc}]_vars

\* A create_enclave() failed after an earlier one had succeeded, and the
\* enclave of the earlier one is still the only object.
C11_Witness ==
    /\ dev_last.op = "create_enclave" /\ dev_last.result = "Err" /\ dev_last.rc < 0
    /\ Cardinality({o \in Objs : enclaves[o].st = "live"}) = 1
    /\ NoObj # {}
    /\ open_fds # {}

\* C12: initial state. The step of new() yields a socket on the default
\* path with no monitor handle and the flag false, and it changes nothing
\* in the filesystem and starts no thread: no path exists that did not
\* before, and every watcher is still unspawned.
C12_NewInitialState ==
    [][(owner = "none" /\ owner' = "live") =>
          /\ socket_path' = DefaultPath
          /\ remove_listener_thread' = NoThread
          /\ ~requested_remove'
          /\ fs' = fs /\ nextIno' = nextIno
          /\ ~Exists(socket_path)'
          /\ wpc' = wpc
          /\ Spawned' = {}]_vars

\* The state new() returns in, before any other call or action.
C12_Witness ==
    /\ owner = "live" /\ calls = 0
    /\ ~bound /\ extBudget = MaxExt
    /\ cm_self = NoSelf

\* close_mut waits in join() for a watcher that is itself waiting in
\* read_events_blocking with nothing queued, and no listener still holds the
\* watched inode (whose close would deliver an event): neither thread can
\* take another step.
CloseBlocked ==
    /\ Running /\ InCloseMut("join")
    /\ LET t == SelfThread(cm_self) IN
       /\ t # NoThread
       /\ wpc[t] = "read" /\ wq[t] = <<>>
       /\ wino[t] \notin held

\* C13: close() never blocks forever. Whatever calls and external activity
\* came before, a close_mut that has reached its join() is never blocked
\* there: the watcher it waits for has finished, is handling events, or has
\* the event of the unlink still to read.
C13_CloseNeverBlocks == ~CloseBlocked

\* Watcher w passes the test at the head of the loop body in this step: the
\* event is an attribute change or a self-deletion and the path is absent.
AbsenceEvent(w) ==
    /\ wpc[w] = "for"
    /\ Head(wbatch[w]) \in {"ATTRIB", "DELETE_SELF"}
    /\ ~Exists(wpath[w])

\* The transitions of the monitor state machine, a spawned watcher starting
\* in Watching: Watching to Done and Watching to Terminated, nothing else.
MonitorTransition(a, b) ==
    \/ a = "NotStarted" /\ b = "Watching"
    \/ a = "Watching" /\ b \in {"Done", "Terminated"}

\* C14 as stated: the only transitions are Watching to Done and Watching to
\* Terminated; a watcher leaves Watching only from the flag test that
\* follows an event found with the path absent, and enters Done only there
\* with the flag true.
C14_WatcherStateMachine_Stated ==
    [][\A w \in Watchers :
          /\ (wpc[w] # "load" /\ wpc'[w] = "load") => AbsenceEvent(w)
          /\ WatcherState(w)' # WatcherState(w) =>
                /\ MonitorTransition(WatcherState(w), WatcherState(w)')
                /\ WatcherState(w) = "Watching" => wpc[w] = "load"
                /\ WatcherState(w)' = "Done" => requested_remove]_vars

\* C14 as amended: as stated, except that a watcher also leaves Watching,
\* for Terminated, when its own read_events_blocking fails and ok_or_exit
\* ends the process.
C14_WatcherStateMachine ==
    [][\A w \in Watchers :
          /\ (wpc[w] # "load" /\ wpc'[w] = "load") => AbsenceEvent(w)
          /\ WatcherState(w)' # WatcherState(w) =>
                /\ MonitorTransition(WatcherState(w), WatcherState(w)')
                /\ WatcherState(w) = "Watching" =>
                      \/ wpc[w] = "load"
                      \/ /\ wpc[w] = "read"
                         /\ WatcherState(w)' = "Terminated"
                         /\ procExit' = "read_failed"
                /\ WatcherState(w)' = "Done" => (wpc[w] = "load" /\ requested_remove)
                /\ (WatcherState(w)' = "Terminated" /\ wpc[w] = "load") =>
                      (~requested_remove /\ procExit' = "failfast")]_vars

\* A watcher is in Done with events of its batch still to handle, and
\* another one is in Watching.
C14_Witness ==
    /\ \E w \in Watchers :
          WatcherState(w) = "Done" /\ wpc[w] = "for" /\ ~Exists(wpath[w])
    /\ \E w \in Watchers : WatcherState(w) = "Watching"
    /\ Running

\* C15: integrity failures are never swallowed. Once the watcher's
\* read_events_blocking, close_mut's remove_file or release's close has
\* failed, the process has ended (exit from ok_or_exit, or the panic) and
\* the failing call has not returned: the watcher has not gone on, close_mut
\* is still at its remove_file, the enclave's Drop has finished nothing
\* more. And close_mut gets past its remove_file only with the endpoint it
\* found present unlinked.
C15_IntegrityFailuresEndProcess ==
    [][/\ fault' = "read" =>
              /\ procExit' = "read_failed"
              /\ \E w \in Watchers : wpc'[w] = "exited"
              /\ ~\E w \in Watchers : WatcherState(w)' # WatcherState(w) /\ wpc'[w] # "exited"
       /\ fault' = "unlink" =>
              /\ procExit' = "unlink_failed"
              /\ cm_self' # NoSelf /\ CloseMutSteps[cm_pc'] = "remove_file"
       /\ fault' = "close" => dev_panic'
       /\ (InCloseMut("remove_file") /\ cm_pc' # cm_pc) =>
              /\ fault' = "none"
              /\ Exists(SelfPath(cm_self))
              /\ ~Exists(SelfPath(cm_self))'
              /\ procExit' = "none"]_vars

\* remove_file failed on an endpoint that close_mut had found present and
\* that is still there.
C15_Witness ==
    /\ fault = "unlink" /\ procExit = "unlink_failed"
    /\ cm_self = OwnerSelf
    /\ Exists(socket_path)
    /\ remove_listener_thread # NoThread

\* C16: the shared flag is written at most once. Over any run of new(),
\* clone, start_monitoring(), close() and the Drop of the owner and of
\* clones, requested_remove has been stored to at most once.
C16_FlagWrittenAtMostOnce == stores <= 1

\* C17: add_mem_region() surfaces the driver's verdict. The result of the
\* call is Err exactly when the ioctl's result, which is the driver's answer
\* for that descriptor and region, is negative, and Ok otherwise; the call
\* does not panic, closes nothing and leaves the object as it was, so the
\* enclave can be given another region afterwards.
C17_AddMemRegionSurfacesVerdict ==
    [][dev_calls' # dev_calls =>
          LET o == dev_last'.obj
              r == dev_last'.region IN
          /\ dev_last'.op = "add_mem_region"
          /\ dev_last'.rc = ne_set_user_memory_region(enclaves[o].enc_fd, r)
          /\ dev_last'.result = "Err" <=> dev_last'.rc < 0
          /\ dev_last'.result = "Ok" <=> dev_last'.rc >= 0
          /\ ~dev_panic'
          /\ enclaves' = enclaves
          /\ open_fds' = open_fds
          /\ close_calls' = close_calls /\ ~stale_close']_vars

\* Of two calls on the only enclave there is, the first was rejected and
\* the second has registered its region.
C17_Witness ==
    /\ dev_calls = 2
    /\ dev_last.op = "add_mem_region" /\ dev_last.result = "Ok"
    /\ Cardinality({o \in Objs : enclaves[o].st # "none"}) = 1
    /\ enclaves[dev_last.obj].st = "live"
    /\ enclaves[dev_last.obj].enc_fd \in open_fds
    /\ regions[enclaves[dev_last.obj].enc_fd] = {dev_last.region}

\* C18: closing is idempotent. In a run of close_mut on the owner that
\* directly follows an earlier run on it (Drop after close(), or Drop or
\* close_mut() after close_mut()), the flag is true throughout and there is
\* no handle to join, so the run cannot block; a path found absent is not
\* unlinked; and no step of the run other than an unlink of a path that was
\* created again changes the filesystem, joins a thread or ends the process.
C18_CloseIdempotent ==
    [][/\ cm_rerun' =>
              /\ cm_self' = OwnerSelf
              /\ requested_remove'
              /\ remove_listener_thread' = NoThread
       /\ (cm_rerun /\ cm_pc' # cm_pc) =>
              /\ joined' = joined
              /\ (InCloseMut("exists") /\ ~Exists(socket_path)) =>
                    CloseMutSteps[cm_pc'] = "join"
              /\ ~InCloseMut("remove_file") =>
                    (fs' = fs /\ wq' = wq /\ procExit' = "none")]_vars

\* The Drop that follows close() is about to return; the close_mut run by
\* close() had unlinked the endpoint and joined the watcher.
C18_Witness ==
    /\ cm_rerun /\ CloseMutDone /\ Running
    /\ last_call[1] = "close"
    /\ joined # {}
    /\ lastRemover[socket_path] = "close"
    /\ ~Exists(socket_path)
    /\ stores = 2

====
